---- MODULE Spec2Model ----
(***************************************************************************)
(* Model of the two GraphAnalyzer classes of graph-analytics-network-      *)
(* analysis.                                                               *)
(*                                                                         *)
(*   src/src/models/analyzer.py        the self-contained analyzer: a node *)
(*                                     set, an edge list and an adjacency  *)
(*                                     mapping, with its own engines       *)
(*   src/src/models/graph_analyzer.py  the networkx-backed analyzer: only  *)
(*                                     its dispatch on a name string is    *)
(*                                     modelled, the library result is an  *)
(*                                     opaque value                        *)
(*                                                                         *)
(* Scores are Python floats; a score is modelled as the fraction           *)
(* <<numerator, denominator>> it is computed from.                         *)
(***************************************************************************)
EXTENDS Integers, Sequences, FiniteSets, TLC

VARIABLES
    directed,      \* self.directed, fixed at construction
    nodes,         \* self.nodes: set of node ids
    edges,         \* self.edges: list of (source, target, weight)
    adjacency,     \* self.adjacency: dict node -> list of neighbours
    addEdgeCalls,  \* history: number of add_edge calls made so far
    lastOp,        \* history: the call that produced the current state
    result         \* what that call returned (or raised)

vars == <<directed, nodes, edges, adjacency, addEdgeCalls, lastOp, result>>
graphVars == <<directed, nodes, edges, adjacency>>

-----------------------------------------------------------------------------
(* Bounds and input sets *)

\* the edge list is capped at this many edges
MaxEdges == 2

\* node identifiers the callers pass
NodeIds == {"a", "b", "c"}

\* edge weights the callers pass: the default weight 1.0
Weights == {1}

\* values random.uniform(0, 1) may return, as fractions
RandomUniform == {<<0, 1>>, <<1, 1>>}

\* metric names passed to evaluate; "closeness_centrality" is not one it knows
MetricNames == {"degree_centrality", "betweenness_centrality", "closeness_centrality"}

\* method names passed to analyzer.py's detect_communities
Methods == {"louvain", "bogus"}

\* names passed to graph_analyzer.py's dispatchers; "bogus" is never recognized
Measures == {"degree", "betweenness", "closeness", "eigenvector", "pagerank", "bogus"}
Algorithms == {"louvain", "label_propagation", "greedy_modularity", "bogus"}
LinkMethods == {"common_neighbors", "jaccard", "adamic_adar", "preferential_attachment", "bogus"}

-----------------------------------------------------------------------------
(* Values returned to the caller *)

None == [kind |-> "None"]
Value(kind, v) == [kind |-> kind, value |-> v]
Raise(exc) == [kind |-> "raise", value |-> exc]
Call(op, args) == [op |-> op, args |-> args]

\* 0.0 as a score
Zero == <<0, 1>>

-----------------------------------------------------------------------------
(* analyzer.py: the graph store *)

Graph == [nodes |-> nodes, edges |-> edges, adjacency |-> adjacency]

\* GraphAnalyzer.__init__
EmptyGraph == [nodes |-> {}, edges |-> <<>>, adjacency |-> [x \in {} |-> <<>>]]

\* GraphAnalyzer.add_node
AddNode(g, node) ==
    [g EXCEPT !.nodes = g.nodes \cup {node},
              !.adjacency = IF node \notin DOMAIN g.adjacency
                            THEN [x \in DOMAIN g.adjacency \cup {node} |->
                                    IF x = node THEN <<>> ELSE g.adjacency[x]]
                            ELSE g.adjacency]

\* the adjacency[target].append(source) of an undirected graph dropped
AddEdgeOneWay(g, source, target, weight) ==
    LET g2 == AddNode(AddNode(g, source), target)
    IN [g2 EXCEPT !.edges = Append(g2.edges, <<source, target, weight>>),
                  !.adjacency[source] = Append(g2.adjacency[source], target)]

\* the add_node(target) call dropped
AddEdgeNoTarget(g, source, target, weight) ==
    LET g1 == AddNode(g, source)
        g2 == [g1 EXCEPT !.edges = Append(g1.edges, <<source, target, weight>>),
                         !.adjacency[source] = Append(g1.adjacency[source], target)]
    IN IF directed \/ target \notin DOMAIN g2.adjacency
       THEN g2
       ELSE [g2 EXCEPT !.adjacency[target] = Append(g2.adjacency[target], source)]

\* an edge already in the list is not recorded again
AddEdgeDedup(g, source, target, weight) ==
    LET g1 == AddNode(AddNode(g, source), target)
        g2 == [g1 EXCEPT !.edges = Append(g1.edges, <<source, target, weight>>),
                         !.adjacency[source] = Append(g1.adjacency[source], target)]
    IN IF \E i \in 1..Len(g.edges) : g.edges[i][1] = source /\ g.edges[i][2] = target
       THEN g1
       ELSE IF directed
            THEN g2
            ELSE [g2 EXCEPT !.adjacency[target] = Append(g2.adjacency[target], source)]

\* GraphAnalyzer.add_edge
AddEdge(g, source, target, weight) ==
    LET g1 == AddNode(AddNode(g, source), target)
        g2 == [g1 EXCEPT !.edges = Append(g1.edges, <<source, target, weight>>),
                         !.adjacency[source] = Append(g1.adjacency[source], target)]
    IN IF directed
       THEN g2
       ELSE [g2 EXCEPT !.adjacency[target] = Append(g2.adjacency[target], source)]

\* the loop of GraphAnalyzer.process: add_edge(edge[0], edge[1]) for each edge
RECURSIVE AddEdges(_, _)
AddEdges(g, es) ==
    IF es = <<>> THEN g
    ELSE AddEdges(AddEdge(g, Head(es)[1], Head(es)[2], 1), Tail(es))

\* the record GraphAnalyzer.process returns
ProcessSummary(g) ==
    LET n == Cardinality(g.nodes)
    IN [num_nodes |-> n,
        num_edges |-> Len(g.edges),
        density |-> IF n > 1 THEN <<Len(g.edges), n * (n - 1)>> ELSE Zero]

-----------------------------------------------------------------------------
(* analyzer.py: the engines *)

\* self.adjacency.get(node, [])
AdjacencyGet(g, node) ==
    IF node \in DOMAIN g.adjacency THEN g.adjacency[node] ELSE <<>>

\* the normaliser off by one: n - 2 in place of n - 1
DegreeCentralityOffByOne(g) ==
    LET n == Cardinality(g.nodes)
    IN IF n <= 1
       THEN [node \in g.nodes |-> Zero]
       ELSE [node \in g.nodes |-> <<Len(AdjacencyGet(g, node)), n - 2>>]

\* GraphAnalyzer.degree_centrality
DegreeCentrality(g) ==
    LET n == Cardinality(g.nodes)
    IN IF n <= 1
       THEN [node \in g.nodes |-> Zero]
       ELSE [node \in g.nodes |-> <<Len(AdjacencyGet(g, node)), n - 1>>]

\* GraphAnalyzer.betweenness_centrality: every outcome of the random draws
BetweennessCentrality(g) == [g.nodes -> RandomUniform]

\* list(self.nodes): a set iterates in an order the caller does not control
NodeLists(g) ==
    {l \in [1..Cardinality(g.nodes) -> g.nodes] :
        \A i, j \in 1..Cardinality(g.nodes) : i # j => l[i] # l[j]}

\* the two slices overlap: nodes_list[:mid + 1] and nodes_list[mid:]
SplitOverlapping(nodes_list) ==
    LET mid == Len(nodes_list) \div 2
    IN << {nodes_list[i] : i \in 1..(IF mid + 1 <= Len(nodes_list) THEN mid + 1 ELSE mid)},
          {nodes_list[i] : i \in (mid + 1)..Len(nodes_list)} >>

\* GraphAnalyzer.detect_communities on one iteration order of the node set
Split(nodes_list) ==
    LET mid == Len(nodes_list) \div 2
    IN << {nodes_list[i] : i \in 1..mid},
          {nodes_list[i] : i \in (mid + 1)..Len(nodes_list)} >>

\* GraphAnalyzer.shortest_path
ShortestPath(g, source, target) ==
    IF source \notin g.nodes \/ target \notin g.nodes
    THEN None
    ELSE Value("path", <<source, target>>)

\* GraphAnalyzer.evaluate: the results dict for one outcome bc of the random draws
Evaluate(g, metrics, bc) ==
    LET keys == metrics \cap {"degree_centrality", "betweenness_centrality"}
    IN [k \in keys |-> IF k = "degree_centrality" THEN DegreeCentrality(g) ELSE bc]

-----------------------------------------------------------------------------
(* graph_analyzer.py: dispatch on a name; the library's result is opaque *)

\* GraphAnalyzer.calculate_centrality
CalculateCentrality(measure) ==
    IF measure \in {"degree", "betweenness", "closeness", "eigenvector", "pagerank"}
    THEN Value("networkx", measure)
    ELSE Raise("ValueError")

\* GraphAnalyzer.detect_communities (networkx-backed)
NxDetectCommunities(algorithm) ==
    IF algorithm \in {"louvain", "label_propagation", "greedy_modularity"}
    THEN Value("networkx", algorithm)
    ELSE Raise("ValueError")

\* GraphAnalyzer.predict_links
PredictLinks(method) ==
    IF method \in {"common_neighbors", "jaccard", "adamic_adar", "preferential_attachment"}
    THEN Value("networkx", method)
    ELSE Raise("ValueError")

\* GraphAnalyzer.get_top_nodes: sorts what calculate_centrality returns, or
\* lets its exception through
GetTopNodes(centrality_measure) ==
    LET centrality == CalculateCentrality(centrality_measure)
    IN IF centrality.kind = "raise" THEN centrality
       ELSE Value("networkx", centrality.value)

-----------------------------------------------------------------------------
(* The state machine *)

Init ==
    /\ directed \in BOOLEAN
    /\ nodes = EmptyGraph.nodes
    /\ edges = EmptyGraph.edges
    /\ adjacency = EmptyGraph.adjacency
    /\ addEdgeCalls = 0
    /\ lastOp = Call("__init__", <<>>)
    /\ result = None

SetGraph(g) ==
    /\ nodes' = g.nodes
    /\ edges' = g.edges
    /\ adjacency' = g.adjacency
    /\ UNCHANGED directed

add_node(node) ==
    /\ SetGraph(AddNode(Graph, node))
    /\ lastOp' = Call("add_node", <<node>>)
    /\ result' = None
    /\ UNCHANGED addEdgeCalls

add_edge(source, target, weight) ==
    /\ Len(edges) < MaxEdges
    /\ SetGraph(AddEdge(Graph, source, target, weight))
    /\ addEdgeCalls' = addEdgeCalls + 1
    /\ lastOp' = Call("add_edge", <<source, target, weight>>)
    /\ result' = None

process(es) ==
    /\ Len(edges) + Len(es) <= MaxEdges
    /\ LET g == AddEdges(Graph, es)
       IN /\ SetGraph(g)
          /\ result' = Value("summary", ProcessSummary(g))
    /\ addEdgeCalls' = addEdgeCalls + Len(es)
    /\ lastOp' = Call("process", <<es>>)

degree_centrality ==
    /\ result' = Value("scores", DegreeCentrality(Graph))
    /\ lastOp' = Call("degree_centrality", <<>>)
    /\ UNCHANGED <<graphVars, addEdgeCalls>>

betweenness_centrality ==
    /\ \E bc \in BetweennessCentrality(Graph) : result' = Value("scores", bc)
    /\ lastOp' = Call("betweenness_centrality", <<>>)
    /\ UNCHANGED <<graphVars, addEdgeCalls>>

detect_communities(method) ==
    /\ \E nodes_list \in NodeLists(Graph) : result' = Value("communities", Split(nodes_list))
    /\ lastOp' = Call("detect_communities", <<method>>)
    /\ UNCHANGED <<graphVars, addEdgeCalls>>

\* a missing source is created, as add_edge does
shortest_path_creating(source, target) ==
    /\ result' = ShortestPath(Graph, source, target)
    /\ lastOp' = Call("shortest_path", <<source, target>>)
    /\ SetGraph(AddNode(Graph, source))
    /\ UNCHANGED addEdgeCalls

shortest_path(source, target) ==
    /\ result' = ShortestPath(Graph, source, target)
    /\ lastOp' = Call("shortest_path", <<source, target>>)
    /\ UNCHANGED <<graphVars, addEdgeCalls>>

evaluate(metrics) ==
    /\ IF "betweenness_centrality" \in metrics
       THEN \E bc \in BetweennessCentrality(Graph) :
                result' = Value("results", Evaluate(Graph, metrics, bc))
       ELSE result' = Value("results", Evaluate(Graph, metrics, Zero))
    /\ lastOp' = Call("evaluate", <<metrics>>)
    /\ UNCHANGED <<graphVars, addEdgeCalls>>

calculate_centrality(measure) ==
    /\ result' = CalculateCentrality(measure)
    /\ lastOp' = Call("calculate_centrality", <<measure>>)
    /\ UNCHANGED <<graphVars, addEdgeCalls>>

nx_detect_communities(algorithm) ==
    /\ result' = NxDetectCommunities(algorithm)
    /\ lastOp' = Call("nx_detect_communities", <<algorithm>>)
    /\ UNCHANGED <<graphVars, addEdgeCalls>>

predict_links(method) ==
    /\ result' = PredictLinks(method)
    /\ lastOp' = Call("predict_links", <<method>>)
    /\ UNCHANGED <<graphVars, addEdgeCalls>>

get_top_nodes(centrality_measure) ==
    /\ result' = GetTopNodes(centrality_measure)
    /\ lastOp' = Call("get_top_nodes", <<centrality_measure>>)
    /\ UNCHANGED <<graphVars, addEdgeCalls>>

\* edge lists of at most maxLen (source, target) tuples, passed to process
EdgeLists(maxLen) ==
    UNION {[1..k -> NodeIds \X NodeIds] : k \in 0..maxLen}

Next ==
    \/ \E node \in NodeIds : add_node(node)
    \/ \E source, target \in NodeIds, weight \in Weights : add_edge(source, target, weight)
    \/ \E es \in EdgeLists(MaxEdges - Len(edges)) : process(es)
    \/ degree_centrality
    \/ betweenness_centrality
    \/ \E method \in Methods : detect_communities(method)
    \/ \E source, target \in NodeIds : shortest_path(source, target)
    \/ \E metrics \in SUBSET MetricNames : evaluate(metrics)
    \/ \E measure \in Measures : calculate_centrality(measure)
    \/ \E algorithm \in Algorithms : nx_detect_communities(algorithm)
    \/ \E method \in LinkMethods : predict_links(method)
    \/ \E centrality_measure \in Measures : get_top_nodes(centrality_measure)

Spec == Init /\ [][Next]_vars

-----------------------------------------------------------------------------
(* Vocabulary of the properties *)

\* u and v are the endpoints of some stored edge, in either direction
Joined(u, v) ==
    \E i \in 1..Len(edges) :
        \/ edges[i][1] = u /\ edges[i][2] = v
        \/ edges[i][1] = v /\ edges[i][2] = u

\* the nodes reachable from the set S along stored edges
RECURSIVE Component(_)
Component(S) ==
    LET T == S \cup {v \in nodes : \E u \in S : Joined(u, v)}
    IN IF T = S THEN S ELSE Component(T)

SameComponent(u, v) == v \in Component({u})

\* number of occurrences of x in the list seq
Count(seq, x) == Cardinality({i \in 1..Len(seq) : seq[i] = x})

\* sum of the lengths of the adjacency lists of the nodes in S
RECURSIVE AdjacencyTotal(_)
AdjacencyTotal(S) ==
    IF S = {} THEN 0
    ELSE LET x == CHOOSE y \in S : TRUE
         IN Len(adjacency[x]) + AdjacencyTotal(S \ {x})

\* no self-loop, and no two stored edges join the same pair of nodes
SimpleGraph ==
    /\ \A i \in 1..Len(edges) : edges[i][1] # edges[i][2]
    /\ \A i, j \in 1..Len(edges) :
        i # j => /\ <<edges[i][1], edges[i][2]>> # <<edges[j][1], edges[j][2]>>
                 /\ (~directed => <<edges[i][1], edges[i][2]>> # <<edges[j][2], edges[j][1]>>)

\* a score in [0, 1]
InUnit(score) == score[2] > 0 /\ 0 <= score[1] /\ score[1] <= score[2]

\* a score that is 0
IsZero(score) == score[2] > 0 /\ score[1] = 0

\* the calls that read the store
Engines ==
    {"degree_centrality", "betweenness_centrality", "detect_communities",
     "shortest_path", "evaluate"}

\* the call returned betweenness scores, directly or through evaluate
HasBetweenness(op) ==
    \/ op.op = "betweenness_centrality"
    \/ op.op = "evaluate" /\ "betweenness_centrality" \in op.args[1]

BetweennessOf(op, res) ==
    IF op.op = "betweenness_centrality" THEN res.value
    ELSE res.value["betweenness_centrality"]

\* the call dispatches on a name and was given one that is not a variant
UnrecognizedName(op) ==
    \/ /\ op.op \in {"calculate_centrality", "get_top_nodes"}
       /\ op.args[1] \notin {"degree", "betweenness", "closeness", "eigenvector", "pagerank"}
    \/ /\ op.op = "nx_detect_communities"
       /\ op.args[1] \notin {"louvain", "label_propagation", "greedy_modularity"}
    \/ /\ op.op = "detect_communities"
       /\ op.args[1] \notin {"louvain", "label_propagation", "greedy_modularity"}
    \/ /\ op.op = "predict_links"
       /\ op.args[1] \notin {"common_neighbors", "jaccard", "adamic_adar", "preferential_attachment"}
    \/ /\ op.op = "evaluate"
       /\ op.args[1] \ {"degree_centrality", "betweenness_centrality"} # {}

-----------------------------------------------------------------------------
(* Properties *)

\* C1: for nodes a, b of the graph, shortest_path(a, b) returns None exactly
\* when a and b lie in different components, and otherwise a node sequence
\* from a to b whose consecutive nodes are joined by an edge.
C1_NoneIffDisconnected ==
    (/\ lastOp.op = "shortest_path"
     /\ lastOp.args[1] \in nodes
     /\ lastOp.args[2] \in nodes)
    => LET a == lastOp.args[1]
           b == lastOp.args[2]
       IN /\ (result.kind = "None") <=> ~SameComponent(a, b)
          /\ result.kind = "path" =>
                /\ Head(result.value) = a
                /\ result.value[Len(result.value)] = b
                /\ \A i \in 1..(Len(result.value) - 1) :
                       Joined(result.value[i], result.value[i + 1])

\* C2 as stated: every degree_centrality value lies in [0, 1], there is one
\* entry per node, and every entry is 0 when the graph has at most one node.
C2_UnitInterval ==
    lastOp.op = "degree_centrality"
    => /\ DOMAIN result.value = nodes
       /\ \A node \in nodes : InUnit(result.value[node])
       /\ Cardinality(nodes) <= 1 => \A node \in nodes : IsZero(result.value[node])

\* C2 amended: degree_centrality has one entry per node, every value is at
\* least 0, every entry is 0 when the graph has at most one node, and the
\* values lie in [0, 1] when the graph has no self-loop and no parallel edges.
C2_UnitIntervalWhenSimple ==
    lastOp.op = "degree_centrality"
    => /\ DOMAIN result.value = nodes
       /\ \A node \in nodes : result.value[node][2] > 0 /\ result.value[node][1] >= 0
       /\ Cardinality(nodes) <= 1 => \A node \in nodes : IsZero(result.value[node])
       /\ SimpleGraph => \A node \in nodes : InUnit(result.value[node])

C2_Witness ==
    /\ lastOp.op = "degree_centrality"
    /\ Cardinality(nodes) = 3
    /\ SimpleGraph
    /\ \E node \in nodes : result.value[node] = <<2, 2>>

\* C3: detect_communities assigns every node of the graph to exactly one
\* community, assigns no node outside the graph, and no two communities
\* share a node.
C3_Partition ==
    lastOp.op = "detect_communities"
    => LET cs == result.value
       IN /\ \A node \in nodes :
                Cardinality({i \in 1..Len(cs) : node \in cs[i]}) = 1
          /\ \A i \in 1..Len(cs) : cs[i] \subseteq nodes
          /\ \A i, j \in 1..Len(cs) : i # j => cs[i] \cap cs[j] = {}

C3_Witness ==
    /\ lastOp.op = "detect_communities"
    /\ Cardinality(nodes) = 3
    /\ Cardinality(result.value[1]) = 1
    /\ Cardinality(result.value[2]) = 2

\* C4: two calls of betweenness_centrality on the same graph state, with no
\* mutation in between, return the same score for every node.
C4_Deterministic ==
    [][(/\ HasBetweenness(lastOp)
        /\ HasBetweenness(lastOp')
        /\ UNCHANGED graphVars)
       => BetweennessOf(lastOp', result') = BetweennessOf(lastOp, result)]_vars

\* C5: shortest_path fails with NotFoundError, which is not the result None,
\* when source or target is not a node of the graph.
C5_NotFoundError ==
    (/\ lastOp.op = "shortest_path"
     /\ (lastOp.args[1] \notin nodes \/ lastOp.args[2] \notin nodes))
    => result.kind = "raise" /\ result.value = "NotFoundError"

\* C6: both endpoints of every stored edge are nodes, the keys of the
\* adjacency mapping are exactly the nodes, and the endpoints of an add_edge
\* call are nodes once it returns.
C6_EndpointsExist ==
    /\ \A i \in 1..Len(edges) : edges[i][1] \in nodes /\ edges[i][2] \in nodes
    /\ DOMAIN adjacency = nodes
    /\ lastOp.op = "add_edge" => lastOp.args[1] \in nodes /\ lastOp.args[2] \in nodes

C6_Witness ==
    /\ lastOp.op = "add_edge"
    /\ Len(edges) = 1
    /\ lastOp.args[1] # lastOp.args[2]
    /\ nodes = {lastOp.args[1], lastOp.args[2]}

\* C7: in an undirected graph v occurs in adjacency[u] as often as u occurs
\* in adjacency[v]; in a directed graph add_edge(s, t) with s # t appends t
\* to adjacency[s] and leaves adjacency[t] as it was.
C7_Symmetry ==
    /\ [](~directed =>
            \A u, v \in nodes : Count(adjacency[u], v) = Count(adjacency[v], u))
    /\ [][(/\ directed
           /\ lastOp'.op = "add_edge"
           /\ lastOp'.args[1] # lastOp'.args[2])
          => LET s == lastOp'.args[1]
                 t == lastOp'.args[2]
             IN /\ adjacency'[s] = Append(AdjacencyGet(Graph, s), t)
                /\ adjacency'[t] = AdjacencyGet(Graph, t)]_vars

C7_Witness ==
    /\ ~directed
    /\ lastOp.op = "add_edge"
    /\ \E u, v \in nodes : u # v /\ Count(adjacency[u], v) = 2

\* C8: degree_centrality, betweenness_centrality, detect_communities,
\* shortest_path and evaluate leave the node set, the edge list, the
\* adjacency mapping and the directed flag unchanged.
C8_EnginesReadOnly ==
    [][lastOp'.op \in Engines => UNCHANGED graphVars]_vars

C8_Witness ==
    /\ lastOp.op = "shortest_path"
    /\ lastOp.args[1] \notin nodes
    /\ Len(edges) = 1

\* C9: every call that dispatches on a name fails with an error when the
\* name is not one of its recognized variants.
C9_UnsupportedOperation ==
    UnrecognizedName(lastOp) => result.kind = "raise"

\* C10: the edge list is as long as the number of add_edge calls made, the
\* adjacency lists together hold 2 entries per edge in an undirected graph
\* and 1 in a directed graph, and the degree degree_centrality divides for a
\* node is the length of its adjacency list, parallel entries counted.
C10_Multiplicity ==
    LET perEdge == IF directed THEN 1 ELSE 2
    IN /\ Len(edges) = addEdgeCalls
       /\ AdjacencyTotal(nodes) = perEdge * Len(edges)
       /\ (lastOp.op = "degree_centrality" /\ Cardinality(nodes) > 1)
          => \A node \in nodes : result.value[node][1] = Len(adjacency[node])

C10_Witness ==
    /\ lastOp.op = "degree_centrality"
    /\ Len(edges) = 2
    /\ edges[1] = edges[2]
    /\ \E node \in nodes : result.value[node] = <<2, 1>>

====
